---- MODULE Spec2Model ----
(***************************************************************************)
(* A model of the data reshaping and join pipeline of popularity_and_return *)
(* (mention_to_csv.py, process_stock_return.py, analyze_mention.py).       *)
(*                                                                         *)
(* JSON values are tagged records [t, n, s, o]: t is the JSON type, n the  *)
(* number, s the string and o the object (a function from keys to JSON     *)
(* values).  Tables (DataFrames, CSV files) are sequences of row records.  *)
(***************************************************************************)
EXTENDS Integers, Sequences, FiniteSets, TLC

VARIABLES
    mentions_data,      \* company_mentions.json: ticker -> year key -> mentions value
    dates_data,         \* filing_dates.json: ticker -> year key -> filing record
    df_mentions,        \* what create_mentions_df returned (or that it raised)
    filings_out,        \* what process_and_save_data returned and wrote
    price_files,        \* price/*.csv: file name -> rows of the file
    stock_out,          \* what process_stock_data returned and wrote
    returns_csv,        \* annual_stock_return.csv as read by read_data
    mentions_agg_csv,   \* df_mentions_agg.csv as read by read_data
    df_input,           \* what read_data returned
    saving_path,        \* which of filing_dates.json, company_mentions.json, price/ exist
    filings_dir,        \* sec-edgar-filings/: the tickers whose filings are on disk
    results_csv,        \* regression_results.csv
    df_filings,         \* what create_filing_summary_df returned (or that it raised)
    options,            \* the command-line flags main was invoked with
    pc,                 \* the step main is at (1..6), or 7 after the last step
    steps_run,          \* main's steps_run list
    exit_code,          \* "running", or the exit status of main
    network,            \* which external calls (SEC, yfinance, OpenAI) fail
    collect_out,        \* what the download and extraction loops got done
    last_run            \* the core stage called last, and whether the call before
                        \* it was a call of the same stage

run_vars == <<options, pc, steps_run, exit_code>>

collect_vars == <<network, collect_out>>

vars == <<mentions_data, dates_data, df_mentions, filings_out, price_files,
          stock_out, returns_csv, mentions_agg_csv, df_input, saving_path,
          filings_dir, results_csv, df_filings, run_vars, collect_vars, last_run>>

----------------------------------------------------------------------------
(* JSON values *)

EmptyObj == [k \in {} |-> 0]

J(t, n, s, o) == [t |-> t, n |-> n, s |-> s, o |-> o]

JNum(k) == J("num", k, "", EmptyObj)

JStr(s) == J("str", 0, s, EmptyObj)

JNull == J("null", 0, "", EmptyObj)

JObj(f) == J("obj", 0, "", f)

\* Partial functions from K to V defined on at most n keys.
BoundedPFun(K, V, n) ==
    UNION {[S -> V] : S \in {T \in SUBSET K : Cardinality(T) <= n}}

\* The order in which the keys of a JSON object are visited (the stores are
\* written with sort_keys=True).
KeyOrder ==
    <<"02020", "2020", "2021", "A", "B", "C", "competitor_mentions", "dates", "filed_date">>

RECURSIVE Flatten(_)
Flatten(ss) == IF ss = <<>> THEN <<>> ELSE Head(ss) \o Flatten(Tail(ss))

\* dict.items(): the keys of object o in visiting order.
Items(o) == SelectSeq(KeyOrder, LAMBDA k : k \in DOMAIN o)

\* int(year) of a year key of the stores; "02020" and "2020" are different keys
\* of a JSON object and the same integer.
IntOfYear(yk) ==
    CASE yk = "2020" -> 2020
      [] yk = "02020" -> 2020
      [] yk = "2021" -> 2021

----------------------------------------------------------------------------
(* mention_to_csv.load_filing_data *)

DatesFile == "filing_dates.json"

MentionsFile == "company_mentions.json"

PriceFolder == "price"

\* A file that is absent is replaced by an empty mapping.
load_filing_data(present, dd, md) ==
    [dates_data |-> IF DatesFile \in present THEN dd ELSE EmptyObj,
     mentions_data |-> IF MentionsFile \in present THEN md ELSE EmptyObj]

\* The columns of pd.DataFrame(rows): those of the row dicts, none for no rows.
FrameColumns(rows) == IF rows = <<>> THEN {} ELSE DOMAIN rows[1]

----------------------------------------------------------------------------
(* mention_to_csv.create_mentions_df *)

TreatAsLegacy(mentions) == mentions

\* The schema normalization of one stored value.
Normalize(mentions) ==
    IF mentions.t = "obj" /\ "competitor_mentions" \in DOMAIN mentions.o
    THEN mentions.o["competitor_mentions"]
    ELSE mentions

NonNegativeCount(count) == count.n >= 0

\* if count > 0
PositiveCount(count) == count.n > 0

\* competitor_mentions.items() needs a dict, count > 0 needs a number.
CellRaises(mentions) ==
    LET cm == Normalize(mentions)
    IN  \/ cm.t # "obj"
        \/ \E k \in DOMAIN cm.o : cm.o[k].t # "num"

MentionRowSwapped(filing_ticker, year, mentioned_ticker, count) ==
    [ticker |-> mentioned_ticker, year |-> IntOfYear(year),
     mentioned_company |-> filing_ticker, num_mention |-> count.n]

MentionRow(filing_ticker, year, mentioned_ticker, count) ==
    [ticker |-> filing_ticker, year |-> IntOfYear(year),
     mentioned_company |-> mentioned_ticker, num_mention |-> count.n]

\* The rows of one (filing_ticker, year) value.
CellRows(filing_ticker, year, mentions) ==
    LET cm == Normalize(mentions).o
        ks == SelectSeq(Items(cm), LAMBDA k : PositiveCount(cm[k]))
    IN  [i \in 1..Len(ks) |-> MentionRow(filing_ticker, year, ks[i], cm[ks[i]])]

TickerRows(filing_ticker, years_data) ==
    LET ys == Items(years_data.o)
    IN  Flatten([i \in 1..Len(ys) |->
                    CellRows(filing_ticker, ys[i], years_data.o[ys[i]])])

create_mentions_df(md, dd) ==
    LET ts == Items(md)
        raised == \E tk \in DOMAIN md : \E yk \in DOMAIN md[tk].o :
                      CellRaises(md[tk].o[yk])
    IN  IF raised
        THEN [status |-> "raised", rows |-> <<>>]
        ELSE [status |-> "ok",
              rows |-> Flatten([i \in 1..Len(ts) |-> TickerRows(ts[i], md[ts[i]])])]

----------------------------------------------------------------------------
(* mention_to_csv.create_filing_summary_df *)

\* pandas' missing timestamp.
NaT == 0

\* pd.to_datetime of one date string, as a day number yyyymmdd; a string that
\* is no date has no value (to_datetime raises).
Parseable(s) == s \in {"2021-02-01", "2021-03-01"}

ParseDate(s) ==
    CASE s = "2021-02-01" -> 20210201
      [] s = "2021-03-01" -> 20210301

\* A timestamp as to_csv writes it; a missing one is written as an empty field.
FormatDate(d) ==
    CASE d = 20210201 -> "2021-02-01"
      [] d = 20210301 -> "2021-03-01"
      [] d = NaT -> ""

\* filing_info.get('dates', {}).get('filed_date')
FiledDateRaises(filing_info) ==
    \/ filing_info.t # "obj"
    \/ /\ "dates" \in DOMAIN filing_info.o
       /\ filing_info.o["dates"].t # "obj"

FiledDateOf(filing_info) ==
    IF "dates" \notin DOMAIN filing_info.o
    THEN JNull
    ELSE LET dates == filing_info.o["dates"].o
         IN  IF "filed_date" \in DOMAIN dates THEN dates["filed_date"] ELSE JNull

\* pd.to_datetime of the filed_date column.
ToDatetimeRaises(v) == v.t # "null" /\ ~(v.t = "str" /\ Parseable(v.s))

ToDatetime(v) == IF v.t = "null" THEN NaT ELSE ParseDate(v.s)

FilingRows(ticker, years_data) ==
    LET ys == Items(years_data.o)
    IN  [i \in 1..Len(ys) |->
            [ticker |-> ticker, year |-> IntOfYear(ys[i]),
             filed_date |-> ToDatetime(FiledDateOf(years_data.o[ys[i]]))]]

create_filing_summary_df(dd) ==
    LET ts == Items(dd)
        raised == \E tk \in DOMAIN dd : \E yk \in DOMAIN dd[tk].o :
                      \/ FiledDateRaises(dd[tk].o[yk])
                      \/ ToDatetimeRaises(FiledDateOf(dd[tk].o[yk]))
    IN  IF raised
        THEN [status |-> "raised", rows |-> <<>>]
        ELSE [status |-> "ok",
              rows |-> Flatten([i \in 1..Len(ts) |-> FilingRows(ts[i], dd[ts[i]])])]

----------------------------------------------------------------------------
(* mention_to_csv.process_and_save_data *)

RECURSIVE SumSeq(_)
SumSeq(ns) == IF ns = <<>> THEN 0 ELSE Head(ns) + SumSeq(Tail(ns))

RECURSIVE SeqOfSet(_)
SeqOfSet(S) ==
    IF S = {} THEN <<>>
    ELSE LET x == CHOOSE y \in S : TRUE IN <<x>> \o SeqOfSet(S \ {x})

\* The position of a string in the sort order of the strings of the model.
Rank(s) == CHOOSE i \in 1..Len(KeyOrder) : KeyOrder[i] = s

JoinedRow(m, filed_date) ==
    [ticker |-> m.ticker, year |-> m.year, filed_date |-> filed_date,
     mentioned_company |-> m.mentioned_company, num_mention |-> m.num_mention]

InnerJoinRows(filings, mentions) ==
    LET matched(m) == SelectSeq(filings, LAMBDA f : f.ticker = m.ticker /\ f.year = m.year)
    IN  Flatten([i \in 1..Len(mentions) |->
            LET fs == matched(mentions[i])
            IN  [j \in 1..Len(fs) |-> JoinedRow(mentions[i], fs[j].filed_date)]])

\* The rows of pd.merge(df_filings, df_mentions, on=['ticker', 'year'], how='right').
RightJoinRows(filings, mentions) ==
    LET matched(m) == SelectSeq(filings, LAMBDA f : f.ticker = m.ticker /\ f.year = m.year)
    IN  Flatten([i \in 1..Len(mentions) |->
            LET fs == matched(mentions[i])
            IN  IF fs = <<>>
                THEN <<JoinedRow(mentions[i], NaT)>>
                ELSE [j \in 1..Len(fs) |-> JoinedRow(mentions[i], fs[j].filed_date)]])

\* A DataFrame built from no rows has no columns, and a merge on columns one
\* side does not have raises KeyError.
MergeRaises(filings, mentions) ==
    \/ ~({"ticker", "year"} \subseteq FrameColumns(filings))
    \/ ~({"ticker", "year"} \subseteq FrameColumns(mentions))

AggKeyLess(a, b) ==
    \/ Rank(a[1]) < Rank(b[1])
    \/ a[1] = b[1] /\ a[2] < b[2]
    \/ a[1] = b[1] /\ a[2] = b[2] /\ a[3] < b[3]

\* groupby keeps the rows whose keys are all present (dropna=True).
GroupedRows(joined) == SelectSeq(joined, LAMBDA r : r.filed_date # NaT)

\* An aggregation that also counts the rows the previous call left in
\* df_mentions_agg.
AccumulatedMentions(joined) ==
    LET prior == IF filings_out.status = "ok" THEN filings_out.df_mentions_agg ELSE <<>>
        rows == GroupedRows(joined) \o prior
        keys == SortSeq(SeqOfSet({<<rows[i].mentioned_company, rows[i].filed_date,
                                    rows[i].year>> : i \in 1..Len(rows)}), AggKeyLess)
        group(k) == SelectSeq(rows, LAMBDA r :
                        <<r.mentioned_company, r.filed_date, r.year>> = k)
    IN  [i \in 1..Len(keys) |->
            [mentioned_company |-> keys[i][1], filed_date |-> keys[i][2],
             year |-> keys[i][3],
             num_mention |-> SumSeq([j \in 1..Len(group(keys[i])) |->
                                        group(keys[i])[j].num_mention])]]

\* groupby(['mentioned_company', 'filed_date', 'year']).agg(sum).reset_index()
AggregateMentions(joined) ==
    LET rows == GroupedRows(joined)
        keys == SortSeq(SeqOfSet({<<rows[i].mentioned_company, rows[i].filed_date,
                                    rows[i].year>> : i \in 1..Len(rows)}), AggKeyLess)
        group(k) == SelectSeq(rows, LAMBDA r :
                        <<r.mentioned_company, r.filed_date, r.year>> = k)
    IN  [i \in 1..Len(keys) |->
            [mentioned_company |-> keys[i][1], filed_date |-> keys[i][2],
             year |-> keys[i][3],
             num_mention |-> SumSeq([j \in 1..Len(group(keys[i])) |->
                                        group(keys[i])[j].num_mention])]]

\* df_mentions_agg.to_csv followed by pd.read_csv: the timestamp comes back as
\* the string that was written.
AggCsv(agg) ==
    [i \in 1..Len(agg) |->
        [mentioned_company |-> agg[i].mentioned_company,
         filed_date |-> FormatDate(agg[i].filed_date),
         year |-> agg[i].year, num_mention |-> agg[i].num_mention]]

NotRun == [status |-> "none", rows |-> <<>>]

FilingsNotRun ==
    [status |-> "none", df_mentions |-> <<>>, df_filings |-> <<>>,
     df_filing_mentions |-> <<>>, df_mentions_agg |-> <<>>]

process_and_save_data(dd, md) ==
    LET f == create_filing_summary_df(dd)
        m == create_mentions_df(md, dd)
    IN  IF \/ f.status = "raised"
           \/ m.status = "raised"
           \/ MergeRaises(f.rows, m.rows)
        THEN [FilingsNotRun EXCEPT !.status = "raised"]
        ELSE LET joined == RightJoinRows(f.rows, m.rows)
             IN  [status |-> "ok", df_mentions |-> m.rows, df_filings |-> f.rows,
                  df_filing_mentions |-> joined,
                  df_mentions_agg |-> AggregateMentions(joined)]

----------------------------------------------------------------------------
(* Floating-point columns *)

\* A float64 value is modelled as a decimal fixed-point number: v counts units
\* of 1/Scale and every division and multiplication rounds to the nearest unit.
\* nan marks a value that is no finite number (a missing CSV field, NaN).
Scale == 10 ^ 3

NaN == [nan |-> TRUE, v |-> 0]

\* The float of the integer k.
Fx(k) == [nan |-> FALSE, v |-> k * Scale]

\* n / d rounded to the nearest integer, for d > 0.
RoundDiv(n, d) == (2 * n + d) \div (2 * d)

FAdd(a, b) == IF a.nan \/ b.nan THEN NaN ELSE [nan |-> FALSE, v |-> a.v + b.v]

FSub(a, b) == IF a.nan \/ b.nan THEN NaN ELSE [nan |-> FALSE, v |-> a.v - b.v]

FMul(a, b) ==
    IF a.nan \/ b.nan THEN NaN ELSE [nan |-> FALSE, v |-> RoundDiv(a.v * b.v, Scale)]

\* A division by zero gives no finite number.
FDiv(a, b) ==
    IF a.nan \/ b.nan \/ b.v = 0 THEN NaN
    ELSE IF b.v > 0 THEN [nan |-> FALSE, v |-> RoundDiv(a.v * Scale, b.v)]
    ELSE [nan |-> FALSE, v |-> RoundDiv((0 - a.v) * Scale, 0 - b.v)]

\* x != 0 on floats: NaN != 0 is True.
FNonZero(a) == a.nan \/ a.v # 0

----------------------------------------------------------------------------
(* process_stock_return.read_stock_data and calculate_annual_returns *)

\* Hours by which America/New_York is behind UTC in January.
UtcOffsetHours == 5

\* A timestamp is [y, d, h]: year, day of the year, hour of the day.
DateLess(a, b) ==
    \/ a.y < b.y
    \/ a.y = b.y /\ a.d < b.d
    \/ a.y = b.y /\ a.d = b.d /\ a.h < b.h

\* pd.to_datetime(df['Date'], utc=True).dt.tz_convert('America/New_York'):
\* the wall-clock time in New York of a UTC instant.
ToNewYork(ts) ==
    IF ts.h >= UtcOffsetHours THEN [y |-> ts.y, d |-> ts.d, h |-> ts.h - UtcOffsetHours]
    ELSE IF ts.d > 1 THEN [y |-> ts.y, d |-> ts.d - 1, h |-> ts.h + 24 - UtcOffsetHours]
    ELSE [y |-> ts.y - 1, d |-> 365, h |-> ts.h + 24 - UtcOffsetHours]

\* re.search(r'<([^>]+)>', filename) on a file name given as its pieces: "<",
\* ">" and the runs of other characters between them.  The match starts at the
\* first "<" that is followed by at least one piece and then a ">".
MatchStarts(name) ==
    {i \in 1..Len(name) :
        /\ name[i] = "<"
        /\ \E j \in (i + 2)..Len(name) :
              name[j] = ">" /\ \A k \in (i + 1)..(j - 1) : name[k] # ">"}

HasTicker(name) == MatchStarts(name) # {}

\* ticker_match.group(1), for file names whose brackets hold one piece.
TickerOf(name) ==
    LET i == CHOOSE a \in MatchStarts(name) : \A b \in MatchStarts(name) : a <= b
    IN  name[i + 1]

\* df['Date'] = ...; df = df.sort_values('Date')
SortedFrame(rows, ticker) ==
    SortSeq([i \in 1..Len(rows) |->
                [Date |-> ToNewYork(rows[i].Date), Close |-> rows[i].Close,
                 ticker |-> ticker]],
            LAMBDA a, b : DateLess(a.Date, b.Date))

\* sorted(df['year'].unique())
YearsOf(df) ==
    SortSeq(SeqOfSet({df[i].Date.y : i \in 1..Len(df)}), LAMBDA a, b : a < b)

LastDayOf(df, year) ==
    LET rows == SelectSeq(df, LAMBDA r : r.Date.y = year)
    IN  rows[Len(rows)]

\* df[df['year'] == year].sort_values('Date').iloc[0]
FirstDayOf(df, year) ==
    LET rows == SortSeq(SelectSeq(df, LAMBDA r : r.Date.y = year),
                        LAMBDA a, b : DateLess(a.Date, b.Date))
    IN  rows[1]

ReturnOnEndPrice(first_day_current, first_day_next) ==
    FMul(FDiv(FSub(first_day_next.Close, first_day_current.Close),
              first_day_next.Close), Fx(100))

\* ((first_day_next['Close'] - first_day_current['Close']) /
\*  first_day_current['Close']) * 100
AnnualReturn(first_day_current, first_day_next) ==
    FMul(FDiv(FSub(first_day_next.Close, first_day_current.Close),
              first_day_current.Close), Fx(100))

Observation(ticker, first_day_current, first_day_next) ==
    [ticker |-> ticker, year |-> first_day_current.Date.y,
     start_date |-> first_day_current.Date, end_date |-> first_day_next.Date,
     start_price |-> first_day_current.Close, end_price |-> first_day_next.Close,
     annual_return_pct |-> AnnualReturn(first_day_current, first_day_next)]

\* df['year'] = df['Date'].dt.year: the column is set on the frame the caller
\* passed, which is the frame the caller holds afterwards.
WithYear(df) ==
    [i \in 1..Len(df) |->
        [Date |-> df[i].Date, Close |-> df[i].Close, ticker |-> df[i].ticker,
         year |-> df[i].Date.y]]

calculate_annual_returns(df, ticker) ==
    LET years == YearsOf(df)
        pairs == SelectSeq([i \in 1..(Len(years) - 1) |-> i],
                           LAMBDA i : FNonZero(FirstDayOf(df, years[i]).Close))
    IN  [k \in 1..Len(pairs) |->
            Observation(ticker, FirstDayOf(df, years[pairs[k]]),
                        FirstDayOf(df, years[pairs[k] + 1]))]

\* The file names of the price folder, in the order glob lists them.
FileA == <<"yfinance.Ticker object ", "<", "A", ">", ".csv">>

FileB == <<"yfinance.Ticker object ", "<", "B", ">", ".csv">>

FileC == <<"yfinance.Ticker object ", "<", "C", ">", ".csv">>

FileACopy == <<"copy of ", "<", "A", ">", ".csv">>

FileNoTicker == <<"A", ".csv">>

FileOrder == <<FileNoTicker, FileACopy, FileA, FileB, FileC>>

\* What read_stock_data returns: the pair (combined, annual_returns), or, when
\* the price folder is missing, one empty DataFrame; unpacked is the number of
\* values the caller's tuple assignment gets from it (an empty DataFrame
\* iterates over its columns, of which there are none).  Each frame is appended
\* to all_stock_data and then passed to calculate_annual_returns, so combined
\* is the concatenation of the frames as that call left them.
read_stock_data(present, files) ==
    LET names == SelectSeq(FileOrder, LAMBDA n : n \in DOMAIN files /\ HasTicker(n))
        frame(n) == SortedFrame(files[n], TickerOf(n))
    IN  IF PriceFolder \notin present
        THEN [unpacked |-> 0, combined |-> <<>>, annual_returns |-> <<>>]
        ELSE [unpacked |-> 2,
              combined |-> Flatten([i \in 1..Len(names) |-> WithYear(frame(names[i]))]),
              annual_returns |->
                Flatten([i \in 1..Len(names) |->
                    calculate_annual_returns(frame(names[i]), TickerOf(names[i]))])]

ReturnRowLess(a, b) ==
    \/ Rank(a.ticker) < Rank(b.ticker)
    \/ a.ticker = b.ticker /\ a.year < b.year

\* annual_returns_df.sort_values(['ticker', 'year']).to_csv, as pd.read_csv
\* gives it back: the columns later stages read.
ReturnsCsv(annual_returns) ==
    LET sorted == SortSeq(annual_returns, ReturnRowLess)
    IN  [i \in 1..Len(sorted) |->
            [ticker |-> sorted[i].ticker, year |-> sorted[i].year,
             start_price |-> sorted[i].start_price, end_price |-> sorted[i].end_price,
             annual_return_pct |-> sorted[i].annual_return_pct]]

StockNotRun == [status |-> "none", combined |-> <<>>, annual_returns |-> <<>>]

\* process_stock_data: combined_stock_data, annual_returns_df = read_stock_data()
\* raises unless two values come back; nothing is returned or saved when there
\* are no returns.
process_stock_data(present, files) ==
    LET r == read_stock_data(present, files)
    IN  IF r.unpacked # 2
        THEN [status |-> "raised", combined |-> <<>>, annual_returns |-> <<>>]
        ELSE IF r.annual_returns = <<>>
        THEN [status |-> "empty", combined |-> <<>>, annual_returns |-> <<>>]
        ELSE [status |-> "ok", combined |-> r.combined,
              annual_returns |-> r.annual_returns]

----------------------------------------------------------------------------
(* analyze_mention.read_data *)

PairLess(a, b) ==
    \/ Rank(a[1]) < Rank(b[1])
    \/ a[1] = b[1] /\ a[2] < b[2]

\* The rows of df_mentions_agg.csv joined as they are, one per filing date.
PerFilingRows(rows) ==
    [i \in 1..Len(rows) |->
        [mentioned_company |-> rows[i].mentioned_company, year |-> rows[i].year,
         num_mention |-> rows[i].num_mention]]

\* df_mentions.groupby(['mentioned_company', 'year']).agg(sum).reset_index()
ReAggregate(rows) ==
    LET keys == SortSeq(SeqOfSet({<<rows[i].mentioned_company, rows[i].year>> :
                                    i \in 1..Len(rows)}), PairLess)
        group(k) == SelectSeq(rows, LAMBDA r : <<r.mentioned_company, r.year>> = k)
    IN  [i \in 1..Len(keys) |->
            [mentioned_company |-> keys[i][1], year |-> keys[i][2],
             num_mention |-> SumSeq([j \in 1..Len(group(keys[i])) |->
                                        group(keys[i])[j].num_mention])]]

KeepNa(x) == x

\* fillna(0)
FillNa(x) == IF x.nan THEN Fx(0) ELSE x

InnerMergeRows(returns, agg) ==
    LET matched(r) == SelectSeq(agg, LAMBDA a :
                        a.mentioned_company = r.ticker /\ a.year = r.year)
    IN  Flatten([i \in 1..Len(returns) |->
            LET ms == matched(returns[i])
            IN  [j \in 1..Len(ms) |->
                    [ticker |-> returns[i].ticker, year |-> returns[i].year,
                     annual_return_pct |-> returns[i].annual_return_pct,
                     num_mention |-> Fx(ms[j].num_mention)]]])

\* pd.merge(df_return, df_mentions_agg, left_on=['ticker', 'year'],
\*          right_on=['mentioned_company', 'year'], how='left')
LeftMergeRows(returns, agg) ==
    LET matched(r) == SelectSeq(agg, LAMBDA a :
                        a.mentioned_company = r.ticker /\ a.year = r.year)
    IN  Flatten([i \in 1..Len(returns) |->
            LET ms == matched(returns[i])
            IN  IF ms = <<>>
                THEN <<[ticker |-> returns[i].ticker, year |-> returns[i].year,
                        annual_return_pct |-> returns[i].annual_return_pct,
                        num_mention |-> NaN]>>
                ELSE [j \in 1..Len(ms) |->
                        [ticker |-> returns[i].ticker, year |-> returns[i].year,
                         annual_return_pct |-> returns[i].annual_return_pct,
                         num_mention |-> Fx(ms[j].num_mention)]]])

\* The mean of the present values of a column (pandas skips missing values);
\* missing when there is none.
MeanOf(values) ==
    LET present == SelectSeq(values, LAMBDA x : ~x.nan)
    IN  IF present = <<>> THEN NaN
        ELSE [nan |-> FALSE,
              v |-> RoundDiv(SumSeq([i \in 1..Len(present) |-> present[i].v]),
                             Len(present))]

OverallMean(merged, year) ==
    MeanOf([i \in 1..Len(merged) |-> merged[i].annual_return_pct])

\* df_input.groupby('year')['annual_return_pct'].transform('mean'), for one year
YearMean(merged, year) ==
    LET rows == SelectSeq(merged, LAMBDA r : r.year = year)
    IN  MeanOf([i \in 1..Len(rows) |-> rows[i].annual_return_pct])

InputNotRun == [status |-> "none", merged |-> <<>>, rows |-> <<>>]

\* pd.read_csv raises FileNotFoundError when a file is absent.
read_data(returns, mentions) ==
    IF ~returns.exists \/ ~mentions.exists
    THEN [InputNotRun EXCEPT !.status = "raised"]
    ELSE LET merged == LeftMergeRows(returns.rows, ReAggregate(mentions.rows))
         IN  [status |-> "ok", merged |-> merged,
              rows |-> [i \in 1..Len(merged) |->
                          [ticker |-> merged[i].ticker, year |-> merged[i].year,
                           num_mention |-> FillNa(merged[i].num_mention),
                           res_return |-> FSub(merged[i].annual_return_pct,
                                               YearMean(merged, merged[i].year))]]]

----------------------------------------------------------------------------
(* The stores the stages start from *)

MaxMentionCells == 2

MaxJoinCells == 2

\* The nested store ticker -> year key -> value that holds the cells of c.
StoreOf(c) ==
    [tk \in {p[1] : p \in DOMAIN c} |->
        JObj([yk \in {p[2] : p \in {q \in DOMAIN c : q[1] = tk}} |-> c[<<tk, yk>>]])]

\* Mention-count mappings otherTicker -> count.
CountMappings(tickers, counts) ==
    UNION {[S -> {JNum(k) : k \in counts}] : S \in SUBSET tickers}

SomeDates == JObj([k \in {"filed_date"} |-> JStr("2021-02-01")])

\* The legacy shape of a mention-count mapping.
Legacy(m) == JObj(m)

\* The current shape of a mention-count mapping.
Current(m) ==
    JObj([k \in {"competitor_mentions", "dates"} |->
            IF k = "dates" THEN SomeDates ELSE JObj(m)])

MentionValues ==
    LET ms == CountMappings({"B", "C"}, {-1, 0, 2})
    IN  {Legacy(m) : m \in ms} \cup {Current(m) : m \in ms}

MentionStores ==
    {StoreOf(c) : c \in BoundedPFun({"A", "B"} \X {"02020", "2020"} \cup {<<"A", "2021">>},
                                    MentionValues, MaxMentionCells)}

\* A filing record with the given filed_date value.
FilingInfo(filed_date) ==
    JObj([k \in {"dates"} |-> JObj([j \in {"filed_date"} |-> filed_date])])

FilingValues ==
    {FilingInfo(JStr("2021-02-01")), FilingInfo(JStr("2021-03-01")),
     FilingInfo(JNull), FilingInfo(JStr("2021-13-45"))}

JoinCells == {"A", "B"} \X {"2020", "2021"}

DateStores == {StoreOf(c) : c \in BoundedPFun(JoinCells, FilingValues, MaxJoinCells)}

JoinMentionValues ==
    {Legacy([k \in {"C"} |-> JNum(1)]), Legacy([k \in {"C"} |-> JNum(2)]),
     Legacy([k \in {"B", "C"} |-> JNum(1)]), Legacy(EmptyObj),
     Current([k \in {"C"} |-> JNum(2)])}

JoinMentionStores ==
    {StoreOf(c) : c \in BoundedPFun(JoinCells, JoinMentionValues, MaxJoinCells)}

NoFile == [exists |-> FALSE, rows |-> <<>>]

File(rows) == [exists |-> TRUE, rows |-> rows]

----------------------------------------------------------------------------
(* The state before main, the downloads and the extractions have run *)

\* main invoked with no flag; company "" and year 0 stand for None.
NoOptions ==
    [download |-> FALSE, extract_dates |-> FALSE, extract_mentions |-> FALSE,
     process_filings |-> FALSE, process_stock |-> FALSE, analyze |-> FALSE,
     full_pipeline |-> FALSE, all |-> FALSE, company |-> "", year |-> 0]

MainNotStarted ==
    /\ options = NoOptions
    /\ pc = 1
    /\ steps_run = <<>>
    /\ exit_code = "running"

\* No external call fails.
NetworkUp ==
    [lookup |-> {}, get |-> {}, history |-> {}, classify |-> {}, api_key |-> TRUE]

LoopNotRun == [status |-> "none", processed |-> {}]

CollectNotRun == [filings |-> LoopNotRun, prices |-> LoopNotRun, mentions |-> LoopNotRun]

CollectIdle ==
    /\ network = NetworkUp
    /\ collect_out = CollectNotRun
    /\ filings_dir = {}

AllPresent == {DatesFile, MentionsFile, PriceFolder}

\* No core stage (process_and_save_data, process_stock_data, read_data) has
\* been called yet.
NoStage == [stage |-> "none", again |-> FALSE]

\* A call of the core stage named stage.
Called(stage) == last_run' = [stage |-> stage, again |-> last_run.stage = stage]

----------------------------------------------------------------------------
(* The stages as steps *)

CreateMentionsDf ==
    /\ df_mentions' = create_mentions_df(mentions_data, dates_data)
    /\ UNCHANGED <<mentions_data, dates_data, filings_out, price_files, stock_out,
                   returns_csv, mentions_agg_csv, df_input, saving_path,
                   filings_dir, results_csv, df_filings, run_vars, collect_vars, last_run>>

\* process_and_save_data with the files it reads and writes.
ProcessAndSaveDataRun ==
    /\ filings_out' =
          LET loaded == load_filing_data(saving_path, dates_data, mentions_data)
          IN  process_and_save_data(loaded.dates_data, loaded.mentions_data)
    /\ mentions_agg_csv' =
          IF filings_out'.status = "ok"
          THEN File(AggCsv(filings_out'.df_mentions_agg))
          ELSE mentions_agg_csv
    /\ Called("process_and_save_data")

ProcessAndSaveData ==
    /\ ProcessAndSaveDataRun
    /\ UNCHANGED <<mentions_data, dates_data, df_mentions, price_files, stock_out,
                   returns_csv, df_input, saving_path, filings_dir, results_csv,
                   df_filings, run_vars, collect_vars>>

InitMentions ==
    /\ mentions_data \in MentionStores
    /\ dates_data = EmptyObj
    /\ df_mentions = NotRun
    /\ filings_out = FilingsNotRun
    /\ price_files = EmptyObj
    /\ stock_out = StockNotRun
    /\ returns_csv = NoFile
    /\ mentions_agg_csv = NoFile
    /\ df_input = InputNotRun
    /\ saving_path = AllPresent
    /\ results_csv = NoFile
    /\ df_filings = NotRun
    /\ last_run = NoStage
    /\ MainNotStarted
    /\ CollectIdle

NextMentions == CreateMentionsDf

SpecMentions == InitMentions /\ [][NextMentions]_vars

InitFilings ==
    /\ mentions_data \in JoinMentionStores
    /\ dates_data \in DateStores
    /\ df_mentions = NotRun
    /\ filings_out = FilingsNotRun
    /\ price_files = EmptyObj
    /\ stock_out = StockNotRun
    /\ returns_csv = NoFile
    /\ mentions_agg_csv = NoFile
    /\ df_input = InputNotRun
    /\ saving_path \in {present \in SUBSET AllPresent : PriceFolder \in present}
    /\ DatesFile \notin saving_path => dates_data = EmptyObj
    /\ MentionsFile \notin saving_path => mentions_data = EmptyObj
    /\ results_csv = NoFile
    /\ df_filings = NotRun
    /\ last_run = NoStage
    /\ MainNotStarted
    /\ CollectIdle

NextFilings == ProcessAndSaveData

SpecFilings == InitFilings /\ [][NextFilings]_vars

----------------------------------------------------------------------------
(* Properties of create_mentions_df, checked under SpecMentions *)

\* The mention-count mapping a stored value carries, whatever its shape.
CountsOf(v) ==
    IF "competitor_mentions" \in DOMAIN v.o THEN v.o["competitor_mentions"].o ELSE v.o

\* The (filing_ticker, year key, mentioned_ticker) entries with a positive count.
PositiveEntries ==
    {e \in (DOMAIN mentions_data) \X {"02020", "2020", "2021"} \X {"A", "B", "C"} :
        /\ e[2] \in DOMAIN mentions_data[e[1]].o
        /\ e[3] \in DOMAIN CountsOf(mentions_data[e[1]].o[e[2]])
        /\ CountsOf(mentions_data[e[1]].o[e[2]])[e[3]].n > 0}

RowOfEntry(e) ==
    [ticker |-> e[1],
     year |-> IF e[2] = "2021" THEN 2021 ELSE 2020,
     mentioned_company |-> e[3],
     num_mention |-> CountsOf(mentions_data[e[1]].o[e[2]])[e[3]].n]

HasNonPositiveEntry ==
    \E tk \in DOMAIN mentions_data : \E yk \in DOMAIN mentions_data[tk].o :
        \E mt \in DOMAIN CountsOf(mentions_data[tk].o[yk]) :
            CountsOf(mentions_data[tk].o[yk])[mt].n <= 0

\* C2: no row of the table returned by create_mentions_df has num_mention <= 0;
\* every entry whose count is zero or negative is absent from the output.
C2_NoNonPositiveRow ==
    df_mentions.status = "ok" =>
        \A i \in 1..Len(df_mentions.rows) : df_mentions.rows[i].num_mention > 0

C2_Witness ==
    /\ df_mentions.status = "ok"
    /\ Len(df_mentions.rows) > 0
    /\ HasNonPositiveEntry

\* The same store with every value stored in the other shape.
OtherShape(v) ==
    IF "competitor_mentions" \in DOMAIN v.o
    THEN Legacy(v.o["competitor_mentions"].o)
    ELSE Current(v.o)

Reshaped(md) ==
    [tk \in DOMAIN md |-> JObj([yk \in DOMAIN md[tk].o |-> OtherShape(md[tk].o[yk])])]

\* C3: create_mentions_df emits exactly the same rows when a value is stored in
\* the legacy shape M as when it is stored as {competitor_mentions: M, dates: ...}.
C3_ShapeIndependent ==
    df_mentions.status # "none" =>
        df_mentions = create_mentions_df(Reshaped(mentions_data), dates_data)

C3_Witness ==
    /\ df_mentions.status = "ok"
    /\ Len(df_mentions.rows) > 0
    /\ \E tk \in DOMAIN mentions_data : \E yk \in DOMAIN mentions_data[tk].o :
          /\ "competitor_mentions" \in DOMAIN mentions_data[tk].o[yk].o
          /\ \E mt \in DOMAIN CountsOf(mentions_data[tk].o[yk]) :
                CountsOf(mentions_data[tk].o[yk])[mt].n > 0

\* C4: the table returned by create_mentions_df has one row per entry with a
\* positive count, and that row is {ticker: filing_ticker, year: int(year),
\* mentioned_company: mentioned_ticker, num_mention: count}.
C4_OneRowPerPositiveEntry ==
    df_mentions.status = "ok" =>
        /\ Len(df_mentions.rows) = Cardinality(PositiveEntries)
        /\ \A e \in PositiveEntries :
              Cardinality({i \in 1..Len(df_mentions.rows) :
                              df_mentions.rows[i] = RowOfEntry(e)})
                = Cardinality({d \in PositiveEntries : RowOfEntry(d) = RowOfEntry(e)})

\* Two year keys of one ticker that are the same integer both give their row.
C4_Witness ==
    /\ df_mentions.status = "ok"
    /\ \E e \in PositiveEntries : \E d \in PositiveEntries :
          e # d /\ RowOfEntry(d) = RowOfEntry(e)
    /\ HasNonPositiveEntry

----------------------------------------------------------------------------
(* Properties of process_and_save_data, checked under SpecFilings *)

SameKey(a, b) == a.ticker = b.ticker /\ a.year = b.year

Occurs(row, table) == \E j \in 1..Len(table) : table[j] = row

\* The sum of num_mention over the rows of a table for one company and year.
MentionSum(table, company, year) ==
    LET rows == SelectSeq(table, LAMBDA r : r.mentioned_company = company /\ r.year = year)
    IN  SumSeq([j \in 1..Len(rows) |-> rows[j].num_mention])

\* C1: for every (mentioned_company, year) the aggregated num_mention, also as
\* re-aggregated by read_data, is the sum of num_mention over the rows of the
\* joined table, rows with a null filed_date included.
C1_AggregateIsJoinedSum ==
    filings_out.status = "ok" =>
        \A i \in 1..Len(filings_out.df_filing_mentions) :
            LET r == filings_out.df_filing_mentions[i]
                joined == MentionSum(filings_out.df_filing_mentions,
                                     r.mentioned_company, r.year)
            IN  /\ MentionSum(filings_out.df_mentions_agg, r.mentioned_company, r.year)
                     = joined
                /\ MentionSum(ReAggregate(mentions_agg_csv.rows), r.mentioned_company,
                              r.year) = joined

----------------------------------------------------------------------------
(* The price series the return calculator starts from *)

MaxRows == 3

FirstYear == 2020

\* UTC instants: midnight and the afternoon of 1 January, and a day in July.
Instants ==
    {ts \in [y : FirstYear..(FirstYear + 2), d : {1, 200}, h : {0, 14}] :
        ts.h = 0 => ts.d = 1}

Closes == {Fx(0), Fx(100), Fx(110), NaN}

\* A price file: rows with distinct dates, in no particular order.
PriceSeries ==
    {LET ds == SeqOfSet(DOMAIN c)
     IN  [i \in 1..Len(ds) |-> [Date |-> ds[i], Close |-> c[ds[i]]]] :
        c \in BoundedPFun(Instants, Closes, MaxRows)}

ProcessStockData ==
    /\ stock_out' = process_stock_data(saving_path, price_files)
    /\ returns_csv' =
          IF stock_out'.status = "ok"
          THEN File(ReturnsCsv(stock_out'.annual_returns))
          ELSE returns_csv
    /\ Called("process_stock_data")
    /\ UNCHANGED <<mentions_data, dates_data, df_mentions, filings_out, price_files,
                   mentions_agg_csv, df_input, saving_path, filings_dir, results_csv,
                   df_filings, run_vars, collect_vars>>

InitReturns ==
    /\ mentions_data = EmptyObj
    /\ dates_data = EmptyObj
    /\ df_mentions = NotRun
    /\ filings_out = FilingsNotRun
    /\ \/ \E n \in {FileA, FileNoTicker} : price_files \in [{n} -> PriceSeries]
       \/ price_files = EmptyObj
    /\ stock_out = StockNotRun
    /\ returns_csv = NoFile
    /\ mentions_agg_csv = NoFile
    /\ df_input = InputNotRun
    /\ saving_path \in {AllPresent, AllPresent \ {PriceFolder}}
    /\ PriceFolder \notin saving_path => price_files = EmptyObj
    /\ results_csv = NoFile
    /\ df_filings = NotRun
    /\ last_run = NoStage
    /\ MainNotStarted
    /\ CollectIdle

NextReturns == ProcessStockData

SpecReturns == InitReturns /\ [][NextReturns]_vars

----------------------------------------------------------------------------
(* Properties of calculate_annual_returns, checked under SpecReturns *)

\* The price files whose name yields a ticker.
TickerFiles == {n \in DOMAIN price_files : HasTicker(n)}

\* The rows of file n with their New York dates.
LocalRows(n) ==
    {[Date |-> ToNewYork(price_files[n][i].Date), Close |-> price_files[n][i].Close] :
        i \in 1..Len(price_files[n])}

CalendarYears(n) == {r.Date.y : r \in LocalRows(n)}

\* The earliest-dated row of file n in year y.
Earliest(n, y) ==
    CHOOSE r \in LocalRows(n) :
        /\ r.Date.y = y
        /\ \A q \in LocalRows(n) : q.Date.y = y => ~DateLess(q.Date, r.Date)

\* The year after y in the sorted distinct years of file n.
Following(n, y) ==
    CHOOSE z \in CalendarYears(n) :
        z > y /\ \A w \in CalendarYears(n) : w > y => z <= w

\* The years y_i, i < n, of file n whose start close is not zero.
StartYears(n) ==
    {y \in CalendarYears(n) :
        /\ \E z \in CalendarYears(n) : z > y
        /\ Earliest(n, y).Close # Fx(0)}

ExpectedReturn(n, y) ==
    LET start == Earliest(n, y).Close
        end == Earliest(n, Following(n, y)).Close
    IN  IF start.nan \/ end.nan THEN NaN
        ELSE [nan |-> FALSE,
              v |-> RoundDiv(RoundDiv((end.v - start.v) * Scale, start.v) * 100 * Scale,
                             Scale)]

IsObservationOf(o, n, y) ==
    /\ o.ticker = TickerOf(n)
    /\ o.year = y
    /\ o.start_price = Earliest(n, y).Close
    /\ o.end_price = Earliest(n, Following(n, y)).Close
    /\ o.annual_return_pct = ExpectedReturn(n, y)
    /\ (o.start_price = Fx(100) /\ o.end_price = Fx(110)) => o.annual_return_pct = Fx(10)

\* C6: for sorted distinct calendar years y_1 < ... < y_n of a ticker's series,
\* each i < n whose start close is not zero has exactly one observation, with
\* year y_i, the closes of the earliest rows of y_i and y_(i+1), and
\* annual_return_pct = (end - start) / start * 100 (100 then 110 give 10);
\* there is no other observation.
C6_ConsecutiveYearReturns ==
    stock_out.status # "none" =>
        /\ \A n \in TickerFiles : \A y \in StartYears(n) :
              LET same == {m \in TickerFiles : TickerOf(m) = TickerOf(n) /\ y \in StartYears(m)}
              IN  /\ Cardinality({k \in 1..Len(stock_out.annual_returns) :
                          /\ stock_out.annual_returns[k].ticker = TickerOf(n)
                          /\ stock_out.annual_returns[k].year = y}) = Cardinality(same)
                  /\ \E k \in 1..Len(stock_out.annual_returns) :
                          IsObservationOf(stock_out.annual_returns[k], n, y)
        /\ Len(stock_out.annual_returns)
              = Cardinality(UNION {{<<n, y>> : y \in StartYears(n)} : n \in TickerFiles})

C6_Witness ==
    /\ stock_out.status = "ok"
    /\ \E n \in TickerFiles : \E y \in StartYears(n) :
          /\ Earliest(n, y).Close = Fx(100)
          /\ Earliest(n, Following(n, y)).Close = Fx(110)
          /\ \E r \in LocalRows(n) : r.Date.y = y /\ r.Close = Fx(110)
          /\ \E k \in 1..Len(stock_out.annual_returns) :
                stock_out.annual_returns[k].annual_return_pct = Fx(10)

\* C7: an observation for (ticker, Y) is emitted only if the ticker's series has
\* a trading day in year Y and a trading day in year Y+1.
C7_NextCalendarYear ==
    \A k \in 1..Len(stock_out.annual_returns) :
        \E n \in TickerFiles :
            /\ TickerOf(n) = stock_out.annual_returns[k].ticker
            /\ stock_out.annual_returns[k].year \in CalendarYears(n)
            /\ stock_out.annual_returns[k].year + 1 \in CalendarYears(n)

\* C8: no observation has start_price 0 and none has an undefined
\* annual_return_pct, also when a first-day close is zero or missing.
C8_NoUndefinedReturn ==
    \A k \in 1..Len(stock_out.annual_returns) :
        /\ stock_out.annual_returns[k].start_price # Fx(0)
        /\ ~stock_out.annual_returns[k].annual_return_pct.nan

----------------------------------------------------------------------------
(* The tables read_data starts from *)

MaxReturnRows == 3

MaxAggRows == 2

\* annual_stock_return.csv as save_annual_returns leaves it: sorted by ticker
\* and year, each row the return from a start price of 100.
ReturnTables ==
    {ReturnsCsv([i \in 1..Len(SeqOfSet(DOMAIN c)) |->
        LET k == SeqOfSet(DOMAIN c)[i]
        IN  [ticker |-> k[1], year |-> k[2], start_date |-> k[2], end_date |-> k[2] + 1,
             start_price |-> Fx(100), end_price |-> FAdd(Fx(100), c[k]),
             annual_return_pct |-> c[k]]]) :
        c \in BoundedPFun({"A", "B", "C"} \X {FirstYear} \cup {<<"A", FirstYear + 1>>},
                          {Fx(10), Fx(20), Fx(30), NaN}, MaxReturnRows)}

\* df_mentions_agg.csv as process_and_save_data leaves it: one row per
\* (mentioned_company, filed_date, year), filed_date present, sorted.
AggTables ==
    {AggCsv(SortSeq([i \in 1..Len(SeqOfSet(DOMAIN c)) |->
        LET k == SeqOfSet(DOMAIN c)[i]
        IN  [mentioned_company |-> k[1], filed_date |-> k[2][1], year |-> k[2][2],
             num_mention |-> c[k]]],
        LAMBDA a, b : AggKeyLess(<<a.mentioned_company, a.filed_date, a.year>>,
                                 <<b.mentioned_company, b.filed_date, b.year>>))) :
        c \in BoundedPFun({"A", "B"} \X {<<20210201, FirstYear>>, <<20210301, FirstYear>>,
                                         <<20210301, FirstYear + 1>>},
                          {1, 2}, MaxAggRows)}

ReadData ==
    /\ df_input' = read_data(returns_csv, mentions_agg_csv)
    /\ Called("read_data")
    /\ UNCHANGED <<mentions_data, dates_data, df_mentions, filings_out, price_files,
                   stock_out, returns_csv, mentions_agg_csv, saving_path,
                   filings_dir, results_csv, df_filings, run_vars, collect_vars>>

InitAnalyze ==
    /\ mentions_data = EmptyObj
    /\ dates_data = EmptyObj
    /\ df_mentions = NotRun
    /\ filings_out = FilingsNotRun
    /\ price_files = EmptyObj
    /\ stock_out = StockNotRun
    /\ returns_csv \in {File(t) : t \in ReturnTables \ {<<>>}} \cup {NoFile}
    /\ mentions_agg_csv \in {File(t) : t \in AggTables} \cup {NoFile}
    /\ df_input = InputNotRun
    /\ saving_path = AllPresent
    /\ results_csv = NoFile
    /\ df_filings = NotRun
    /\ last_run = NoStage
    /\ MainNotStarted
    /\ CollectIdle

NextAnalyze == ReadData

SpecAnalyze == InitAnalyze /\ [][NextAnalyze]_vars

----------------------------------------------------------------------------
(* Properties of read_data, checked under SpecAnalyze *)

HasMention(ticker, year) ==
    \E a \in 1..Len(mentions_agg_csv.rows) :
        /\ mentions_agg_csv.rows[a].mentioned_company = ticker
        /\ mentions_agg_csv.rows[a].year = year

\* C9: a (ticker, year) of the annual returns that has no aggregated mention
\* row is in the output with num_mention 0, not null, and is not dropped.
C9_ZeroFill ==
    df_input.status = "ok" =>
        \A i \in 1..Len(returns_csv.rows) :
            LET r == returns_csv.rows[i]
            IN  ~HasMention(r.ticker, r.year) =>
                    Cardinality({j \in 1..Len(df_input.rows) :
                        /\ df_input.rows[j].ticker = r.ticker
                        /\ df_input.rows[j].year = r.year
                        /\ df_input.rows[j].num_mention = Fx(0)})
                      = Cardinality({k \in 1..Len(returns_csv.rows) :
                            /\ returns_csv.rows[k].ticker = r.ticker
                            /\ returns_csv.rows[k].year = r.year})

C9_Witness ==
    /\ df_input.status = "ok"
    /\ \E i \in 1..Len(returns_csv.rows) :
          ~HasMention(returns_csv.rows[i].ticker, returns_csv.rows[i].year)
    /\ \E i \in 1..Len(returns_csv.rows) :
          HasMention(returns_csv.rows[i].ticker, returns_csv.rows[i].year)
    /\ \E a \in 1..Len(mentions_agg_csv.rows) :
          \E i \in 1..Len(returns_csv.rows) :
              /\ mentions_agg_csv.rows[a].mentioned_company = returns_csv.rows[i].ticker
              /\ mentions_agg_csv.rows[a].year # returns_csv.rows[i].year
              /\ ~HasMention(returns_csv.rows[i].ticker, returns_csv.rows[i].year)

\* The rows of the joined table of one year whose annual_return_pct is present.
PresentOfYear(year) ==
    {j \in 1..Len(df_input.merged) :
        df_input.merged[j].year = year /\ ~df_input.merged[j].annual_return_pct.nan}

RECURSIVE SumOver(_, _)
SumOver(S, f) ==
    IF S = {} THEN 0
    ELSE LET x == CHOOSE y \in S : TRUE IN f[x] + SumOver(S \ {x}, f)

ReturnUnits == [j \in 1..Len(df_input.merged) |-> df_input.merged[j].annual_return_pct.v]

ResidualUnits == [j \in 1..Len(df_input.rows) |-> df_input.rows[j].res_return.v]

Abs(x) == IF x < 0 THEN 0 - x ELSE x

----------------------------------------------------------------------------
(* The return calculator followed by the regression-input assembler *)

MaxPriceFiles == 2

\* Price series of two rows: the first trading days of two consecutive years.
PairSeries ==
    {<<[Date |-> [y |-> FirstYear, d |-> 1, h |-> 14], Close |-> Fx(100)],
       [Date |-> [y |-> FirstYear + 1, d |-> 1, h |-> 14], Close |-> c]>> :
        c \in {Fx(100), Fx(110)}}

PriceFolders ==
    BoundedPFun({FileNoTicker, FileACopy, FileA, FileB}, PairSeries, MaxPriceFiles)

InitAssemble ==
    /\ mentions_data = EmptyObj
    /\ dates_data = EmptyObj
    /\ df_mentions = NotRun
    /\ filings_out = FilingsNotRun
    /\ price_files \in PriceFolders
    /\ stock_out = StockNotRun
    /\ returns_csv = NoFile
    /\ mentions_agg_csv \in {File(t) : t \in AggTables}
    /\ df_input = InputNotRun
    /\ saving_path = AllPresent
    /\ results_csv = NoFile
    /\ df_filings = NotRun
    /\ last_run = NoStage
    /\ MainNotStarted
    /\ CollectIdle

NextAssemble == ProcessStockData \/ ReadData

SpecAssemble == InitAssemble /\ [][NextAssemble]_vars

\* C11: the regression input returned by read_data has at most one row per
\* (ticker, year), also when two price files yield the same ticker, and its
\* columns are exactly ticker, year, num_mention, res_return.
C11_OneRowPerTickerYear ==
    df_input.status = "ok" =>
        /\ \A i \in 1..Len(df_input.rows) : \A j \in 1..Len(df_input.rows) :
              (/\ df_input.rows[i].ticker = df_input.rows[j].ticker
               /\ df_input.rows[i].year = df_input.rows[j].year) => i = j
        /\ \A i \in 1..Len(df_input.rows) :
              DOMAIN df_input.rows[i] = {"ticker", "year", "num_mention", "res_return"}

----------------------------------------------------------------------------
(* Empty and missing sources of process_and_save_data, checked under SpecFilings *)

\* C12: when the filing metadata mapping is empty, create_filing_summary_df
\* returns an empty table with the columns ticker, year, filed_date, and the
\* join of process_and_save_data on (ticker, year) succeeds.
C12_EmptyStoreKeepsColumns ==
    LET loaded == load_filing_data(saving_path, dates_data, mentions_data)
        f == create_filing_summary_df(loaded.dates_data)
        m == create_mentions_df(loaded.mentions_data, loaded.dates_data)
    IN  (filings_out.status # "none" /\ loaded.dates_data = EmptyObj) =>
            /\ f.status = "ok"
            /\ f.rows = <<>>
            /\ FrameColumns(f.rows) = {"ticker", "year", "filed_date"}
            /\ (m.status = "ok" /\ m.rows # <<>>) => filings_out.status = "ok"

\* C13: when filing_dates.json or company_mentions.json is absent,
\* process_and_save_data takes the missing source as an empty mapping, runs to
\* completion and writes its CSV outputs.
C13_MissingSourceCompletes ==
    (/\ filings_out.status # "none"
     /\ (DatesFile \notin saving_path \/ MentionsFile \notin saving_path)) =>
        /\ filings_out.status = "ok"
        /\ mentions_agg_csv.exists

----------------------------------------------------------------------------
(* create_filing_summary_df on any filing record *)

MaxSummaryCells == 2

\* Filing records: a parsable, a null, an unparsable and an absent filed_date,
\* a record without dates and a record whose dates is null.
AnyFilingValues ==
    {FilingInfo(JStr("2021-02-01")), FilingInfo(JNull), FilingInfo(JStr("2021-13-45")),
     JObj([k \in {"dates"} |-> JObj(EmptyObj)]), JObj(EmptyObj),
     JObj([k \in {"dates"} |-> JNull])}

AnyDateStores ==
    {StoreOf(c) : c \in BoundedPFun(JoinCells, AnyFilingValues, MaxSummaryCells)}

CreateFilingSummaryDf ==
    /\ df_filings' = create_filing_summary_df(dates_data)
    /\ UNCHANGED <<mentions_data, dates_data, df_mentions, filings_out, price_files,
                   stock_out, returns_csv, mentions_agg_csv, df_input, saving_path,
                   filings_dir, results_csv, run_vars, collect_vars, last_run>>

InitSummary ==
    /\ mentions_data = EmptyObj
    /\ dates_data \in AnyDateStores
    /\ df_mentions = NotRun
    /\ filings_out = FilingsNotRun
    /\ price_files = EmptyObj
    /\ stock_out = StockNotRun
    /\ returns_csv = NoFile
    /\ mentions_agg_csv = NoFile
    /\ df_input = InputNotRun
    /\ saving_path = AllPresent
    /\ results_csv = NoFile
    /\ df_filings = NotRun
    /\ last_run = NoStage
    /\ MainNotStarted
    /\ CollectIdle

NextSummary == CreateFilingSummaryDf

SpecSummary == InitSummary /\ [][NextSummary]_vars

\* The filing records of the store.
FilingCells ==
    {c \in (DOMAIN dates_data) \X {"2020", "2021"} : c[2] \in DOMAIN dates_data[c[1]].o}

\* C14: create_filing_summary_df never raises; every filing record gives its
\* row, with a null filed_date when the stored filed_date is absent or cannot
\* be parsed or the dates sub-object is missing or null.
C14_UnparsableDateIsNull ==
    df_filings.status # "none" =>
        /\ df_filings.status = "ok"
        /\ Len(df_filings.rows) = Cardinality(FilingCells)
        /\ \A c \in FilingCells :
              \E i \in 1..Len(df_filings.rows) :
                  /\ df_filings.rows[i].ticker = c[1]
                  /\ df_filings.rows[i].year = IntOfYear(c[2])
                  /\ dates_data[c[1]].o[c[2]] # FilingInfo(JStr("2021-02-01")) =>
                        df_filings.rows[i].filed_date = NaT

----------------------------------------------------------------------------
(* create_mentions_df on any mention-year value *)

MaxValueCells == 2

\* A JSON array.
JList == J("list", 0, "", EmptyObj)

\* Mention-year values: well-formed ones of both shapes, null, a list, a
\* wrapper whose competitor_mentions is null, and mappings with a null count.
AnyMentionValues ==
    {Legacy([k \in {"B"} |-> JNum(2)]), Current([k \in {"C"} |-> JNum(2)]),
     JNull, JList, JObj([k \in {"competitor_mentions"} |-> JNull]),
     Legacy([k \in {"B"} |-> JNull]),
     Current([k \in {"B", "C"} |-> IF k = "B" THEN JNum(2) ELSE JNull])}

AnyMentionStores ==
    {StoreOf(c) : c \in BoundedPFun(JoinCells, AnyMentionValues, MaxValueCells)}

InitMentionValues ==
    /\ mentions_data \in AnyMentionStores
    /\ dates_data = EmptyObj
    /\ df_mentions = NotRun
    /\ filings_out = FilingsNotRun
    /\ price_files = EmptyObj
    /\ stock_out = StockNotRun
    /\ returns_csv = NoFile
    /\ mentions_agg_csv = NoFile
    /\ df_input = InputNotRun
    /\ saving_path = AllPresent
    /\ results_csv = NoFile
    /\ df_filings = NotRun
    /\ last_run = NoStage
    /\ MainNotStarted
    /\ CollectIdle

NextMentionValues == CreateMentionsDf

SpecMentionValues == InitMentionValues /\ [][NextMentionValues]_vars

\* The well-formed entries of the store: a numeric count in a mapping.
WellFormedPositive ==
    {e \in (DOMAIN mentions_data) \X {"2020", "2021"} \X {"B", "C"} :
        /\ e[2] \in DOMAIN mentions_data[e[1]].o
        /\ LET cm == Normalize(mentions_data[e[1]].o[e[2]])
           IN  /\ cm.t = "obj"
               /\ e[3] \in DOMAIN cm.o
               /\ cm.o[e[3]].t = "num"
               /\ cm.o[e[3]].n > 0}

\* C15: create_mentions_df never raises on a malformed mention-year value
\* (null, a list, a null count); such values give no row and every well-formed
\* entry still gives its row.
C15_MalformedValueIsSkipped ==
    df_mentions.status # "none" =>
        /\ df_mentions.status = "ok"
        /\ Len(df_mentions.rows) = Cardinality(WellFormedPositive)

----------------------------------------------------------------------------
(* process_stock_data without price data, checked under SpecReturns *)

\* C16: when the price folder is missing or holds no price file,
\* read_stock_data returns two empty tables and process_stock_data finishes
\* without raising.
C16_NoPriceDataIsEmpty ==
    (/\ stock_out.status # "none"
     /\ (PriceFolder \notin saving_path \/ price_files = EmptyObj)) =>
        /\ read_stock_data(saving_path, price_files)
              = [unpacked |-> 2, combined |-> <<>>, annual_returns |-> <<>>]
        /\ stock_out.status = "empty"

----------------------------------------------------------------------------
(* collect_data: the download loops *)

\* The tickers of config.COMPANIES, in the order of the dict.
COMPANIES == <<"A", "B", "C">>

CompanySet == {COMPANIES[i] : i \in 1..Len(COMPANIES)}

\* The external calls that fail, per ticker: is_us_company (lookup), dl.get
\* (get), Ticker.history (history), chat.completions.create (classify); and
\* whether OPENAI_API_KEY is set.
Networks ==
    [lookup : SUBSET CompanySet, get : SUBSET CompanySet, history : SUBSET CompanySet,
     classify : SUBSET CompanySet, api_key : BOOLEAN]

\* f"{price_dir}/{ticker}.csv" with ticker the yf.Ticker object.
TickerFile(ticker) == <<"yfinance.Ticker object ", "<", ticker, ">", ".csv">>

\* is_us_company is called outside the try; a failure of dl.get is caught.
download_filings_helper_(net, ticker) ==
    IF ticker \in net.lookup
    THEN [status |-> "raised", downloaded |-> {}]
    ELSE [status |-> "ok", downloaded |-> {ticker} \ net.get]

RECURSIVE download_filings(_, _)
download_filings(net, companies) ==
    IF companies = <<>>
    THEN [status |-> "ok", processed |-> {}, downloaded |-> {}]
    ELSE LET h == download_filings_helper_(net, Head(companies))
             rest == download_filings(net, Tail(companies))
         IN  IF h.status = "raised"
             THEN [status |-> "raised", processed |-> {Head(companies)},
                   downloaded |-> {}]
             ELSE [status |-> rest.status,
                   processed |-> {Head(companies)} \cup rest.processed,
                   downloaded |-> h.downloaded \cup rest.downloaded]

\* Nothing is caught: a failure of Ticker.history leaves the function.
download_stock_data_helper_(net, ticker) ==
    IF ticker \in net.history
    THEN [status |-> "raised", written |-> {}]
    ELSE [status |-> "ok", written |-> {ticker}]

RECURSIVE download_stock_data(_, _)
download_stock_data(net, company) ==
    IF company = <<>>
    THEN [status |-> "ok", processed |-> {}, written |-> {}]
    ELSE LET h == download_stock_data_helper_(net, Head(company))
             rest == download_stock_data(net, Tail(company))
         IN  IF h.status = "raised"
             THEN [status |-> "raised", processed |-> {Head(company)}, written |-> {}]
             ELSE [status |-> rest.status,
                   processed |-> {Head(company)} \cup rest.processed,
                   written |-> h.written \cup rest.written]

\* The price folder after the files of the tickers in written were saved with
\* the rows history gave.
WrittenPrices(files, written, history) ==
    [n \in DOMAIN files \cup {TickerFile(t) : t \in written} |->
        IF n \in {TickerFile(t) : t \in written} THEN history ELSE files[n]]

LoopResult(r) == [status |-> r.status, processed |-> r.processed]

----------------------------------------------------------------------------
(* extract_company_mentions and extract_filing_dates *)

\* The counts the classifier replies for a filing: the other companies.
Reply(filing_company) == [k \in CompanySet \ {filing_company} |-> JNum(2)]

\* A failure of the API call is caught and gives {}.
count_mentions_with_openai(net, filing_company) ==
    IF filing_company \in net.classify THEN EmptyObj ELSE Reply(filing_company)

\* The filings of one company on disk, one per ticker, of the year 2020.
process_company_filings(net, dir, ticker) ==
    IF ticker \notin dir THEN EmptyObj
    ELSE [y \in {"2020"} |-> JObj(count_mentions_with_openai(net, ticker))]

extract_all_mentions(net, dir) ==
    [t \in CompanySet \cap dir |-> JObj(process_company_filings(net, dir, t))]

\* filed is the filed_date extract_filing_date found in the headers.
extract_all_dates(dir, filed) ==
    [t \in CompanySet \cap dir |-> JObj([y \in {"2020"} |-> FilingInfo(filed)])]

\* The filed_date values extract_filing_date can give: a date, none, and eight
\* digits that are no date.
ExtractedDates == {JStr("2021-02-01"), JNull, JStr("2021-13-45")}

----------------------------------------------------------------------------
(* The download and extraction loops as steps *)

DownloadFilings ==
    /\ LET r == download_filings(network, COMPANIES)
       IN  /\ collect_out' = [collect_out EXCEPT !.filings = LoopResult(r)]
           /\ filings_dir' = filings_dir \cup r.downloaded
    /\ UNCHANGED <<mentions_data, dates_data, df_mentions, filings_out, price_files,
                   stock_out, returns_csv, mentions_agg_csv, df_input, saving_path,
                   results_csv, df_filings, run_vars, network, last_run>>

DownloadStockData ==
    /\ \E history \in PairSeries :
          LET r == download_stock_data(network, COMPANIES)
          IN  /\ collect_out' = [collect_out EXCEPT !.prices = LoopResult(r)]
              /\ price_files' = WrittenPrices(price_files, r.written, history)
              /\ saving_path' = saving_path \cup {PriceFolder}
    /\ UNCHANGED <<mentions_data, dates_data, df_mentions, filings_out, stock_out,
                   returns_csv, mentions_agg_csv, df_input, filings_dir, results_csv,
                   df_filings, run_vars, network, last_run>>

\* extract_company_mentions.main: nothing is done without an API key.
ExtractMentionsRun ==
    IF network.api_key
    THEN /\ mentions_data' = extract_all_mentions(network, filings_dir)
         /\ saving_path' = saving_path \cup {MentionsFile}
         /\ collect_out' = [collect_out EXCEPT !.mentions =
                               [status |-> "ok",
                                processed |-> CompanySet \cap filings_dir]]
    ELSE UNCHANGED <<mentions_data, saving_path, collect_out>>

ExtractMentionsMain ==
    /\ ExtractMentionsRun
    /\ UNCHANGED <<dates_data, df_mentions, filings_out, price_files, stock_out,
                   returns_csv, mentions_agg_csv, df_input, filings_dir, results_csv,
                   df_filings, run_vars, network, last_run>>

InitCollect ==
    /\ mentions_data = EmptyObj
    /\ dates_data = EmptyObj
    /\ df_mentions = NotRun
    /\ filings_out = FilingsNotRun
    /\ price_files = EmptyObj
    /\ stock_out = StockNotRun
    /\ returns_csv = NoFile
    /\ mentions_agg_csv = NoFile
    /\ df_input = InputNotRun
    /\ saving_path = {}
    /\ filings_dir = {}
    /\ results_csv = NoFile
    /\ df_filings = NotRun
    /\ last_run = NoStage
    /\ MainNotStarted
    /\ network \in Networks
    /\ collect_out = CollectNotRun

NextCollect == DownloadFilings \/ DownloadStockData \/ ExtractMentionsMain

SpecCollect == InitCollect /\ [][NextCollect]_vars

\* C20: a failure of one download (filing, price series, or the lookup that
\* chooses 10-K or 20-F) or of one classification call is caught: no loop
\* raises and every ticker is still processed, the failed unit alone being
\* without its result.
C20_FailuresAreContained ==
    /\ collect_out.filings.status # "none" =>
          /\ collect_out.filings.status = "ok"
          /\ collect_out.filings.processed = CompanySet
    /\ collect_out.prices.status # "none" =>
          /\ collect_out.prices.status = "ok"
          /\ collect_out.prices.processed = CompanySet
          /\ \A t \in CompanySet \ network.history : TickerFile(t) \in DOMAIN price_files
    /\ collect_out.mentions.status # "none" =>
          /\ collect_out.mentions.status = "ok"
          /\ \A t \in collect_out.mentions.processed :
                t \notin network.classify =>
                    mentions_data[t].o["2020"] = JObj(Reply(t))

----------------------------------------------------------------------------
(* main.main and its step runners *)

\* The names main appends to steps_run, in the order of the steps.
StepNames ==
    <<"Download", "Extract Dates", "Extract Mentions", "Process Filings",
      "Process Stock", "Analysis">>

\* The conditions under which main runs step k (the flag all is not read).
Selected(opts, k) ==
    CASE k = 1 -> opts.download \/ opts.full_pipeline
      [] k = 2 -> opts.extract_dates \/ opts.full_pipeline
      [] k = 3 -> opts.extract_mentions \/ opts.full_pipeline
      [] k = 4 -> opts.process_filings \/ opts.full_pipeline
      [] k = 5 -> opts.process_stock \/ opts.full_pipeline
      [] k = 6 -> opts.analyze \/ opts.full_pipeline

NoLoop == [status |-> "none", processed |-> {}, downloaded |-> {}, written |-> {}]

\* run_download_step.  With company and year, download_stock_data is called
\* with three positional arguments though it takes one: TypeError.
run_download_step(opts, net) ==
    IF opts.company # "" /\ opts.year # 0
    THEN LET f == download_filings_helper_(net, opts.company)
         IN  [status |-> "raised",
              filings |-> [NoLoop EXCEPT !.status = f.status,
                                         !.processed = {opts.company},
                                         !.downloaded = f.downloaded],
              prices |-> IF f.status = "raised" THEN NoLoop
                         ELSE [NoLoop EXCEPT !.status = "raised"]]
    ELSE LET f == download_filings(net, COMPANIES)
             p == download_stock_data(net, COMPANIES)
         IN  IF f.status = "raised"
             THEN [status |-> "raised",
                   filings |-> [NoLoop EXCEPT !.status = f.status,
                                              !.processed = f.processed],
                   prices |-> NoLoop]
             ELSE [status |-> p.status,
                   filings |-> [NoLoop EXCEPT !.status = f.status,
                                              !.processed = f.processed,
                                              !.downloaded = f.downloaded],
                   prices |-> [NoLoop EXCEPT !.status = p.status,
                                             !.processed = p.processed,
                                             !.written = p.written]]

\* python analyze_mention.py, and the calls of run_analysis_step: read_data,
\* run_regression_analysis (fit is whether the external fit succeeds; it
\* cannot on an empty table), save_regression_results.
analyze_script(returns, mentions, fit) ==
    LET d == read_data(returns, mentions)
    IN  [status |-> IF d.status = "raised" \/ d.rows = <<>> \/ fit = "raised"
                    THEN "raised" ELSE "ok",
         df_input |-> d]

Running == exit_code = "running"

\* The step returned: steps_run.append(name), on to the next step.
Completed(name) ==
    /\ pc' = pc + 1
    /\ steps_run' = Append(steps_run, name)
    /\ UNCHANGED <<options, exit_code>>

NotSelected ==
    /\ pc' = pc + 1
    /\ UNCHANGED <<options, steps_run, exit_code>>

\* A step whose exception is logged and dropped: main goes on to the next step.
Swallowed ==
    /\ pc' = pc + 1
    /\ UNCHANGED <<options, steps_run, exit_code>>

\* The step raised: except Exception in main, sys.exit(1).
Raised ==
    /\ exit_code' = "1"
    /\ UNCHANGED <<options, pc, steps_run>>

RunDownloadStep ==
    /\ Running
    /\ pc = 1
    /\ IF Selected(options, pc)
       THEN \E history \in PairSeries :
              LET r == run_download_step(options, network)
              IN  /\ filings_dir' = filings_dir \cup r.filings.downloaded
                  /\ price_files' = WrittenPrices(price_files, r.prices.written, history)
                  /\ saving_path' = IF r.prices.processed # {}
                                    THEN saving_path \cup {PriceFolder}
                                    ELSE saving_path
                  /\ collect_out' = [collect_out EXCEPT
                                        !.filings = LoopResult(r.filings),
                                        !.prices = LoopResult(r.prices)]
                  /\ IF r.status = "raised" THEN Raised ELSE Completed(StepNames[pc])
       ELSE /\ NotSelected
            /\ UNCHANGED <<filings_dir, price_files, saving_path, collect_out>>
    /\ UNCHANGED <<mentions_data, dates_data, df_mentions, filings_out, stock_out,
                   returns_csv, mentions_agg_csv, df_input, results_csv, df_filings,
                   network, last_run>>

\* run_extract_dates_step: extract_filing_dates.main writes filing_dates.json,
\* or raises (outcome) on what it finds on disk.
RunExtractDatesStep ==
    /\ Running
    /\ pc = 2
    /\ IF Selected(options, pc)
       THEN \E outcome \in {"ok", "raised"} : \E filed \in ExtractedDates :
              IF outcome = "ok"
              THEN /\ dates_data' = extract_all_dates(filings_dir, filed)
                   /\ saving_path' = saving_path \cup {DatesFile}
                   /\ Completed(StepNames[pc])
              ELSE /\ UNCHANGED <<dates_data, saving_path>>
                   /\ Raised
       ELSE /\ NotSelected
            /\ UNCHANGED <<dates_data, saving_path>>
    /\ UNCHANGED <<mentions_data, df_mentions, filings_out, price_files, stock_out,
                   returns_csv, mentions_agg_csv, df_input, filings_dir, results_csv,
                   df_filings, collect_vars, last_run>>

RunExtractMentionsStep ==
    /\ Running
    /\ pc = 3
    /\ IF Selected(options, pc)
       THEN \E outcome \in {"ok", "raised"} :
              IF outcome = "ok"
              THEN ExtractMentionsRun /\ Completed(StepNames[pc])
              ELSE UNCHANGED <<mentions_data, saving_path, collect_out>> /\ Raised
       ELSE /\ NotSelected
            /\ UNCHANGED <<mentions_data, saving_path, collect_out>>
    /\ UNCHANGED <<dates_data, df_mentions, filings_out, price_files, stock_out,
                   returns_csv, mentions_agg_csv, df_input, filings_dir, results_csv,
                   df_filings, network, last_run>>

RunProcessFilingsStep ==
    /\ Running
    /\ pc = 4
    /\ IF Selected(options, pc)
       THEN /\ ProcessAndSaveDataRun
            /\ IF filings_out'.status = "raised" THEN Raised ELSE Completed(StepNames[pc])
       ELSE /\ NotSelected
            /\ UNCHANGED <<filings_out, mentions_agg_csv, last_run>>
    /\ UNCHANGED <<mentions_data, dates_data, df_mentions, price_files, stock_out,
                   returns_csv, df_input, saving_path, filings_dir, results_csv,
                   df_filings, collect_vars>>

\* run_process_stock_step: analyze_mention has no process_stock_data, so the
\* import fails and analyze_mention.py is run as a script instead;
\* process_stock_return.process_stock_data is not called.
RunProcessStockStep ==
    /\ Running
    /\ pc = 5
    /\ IF Selected(options, pc)
       THEN \E fit \in {"ok", "raised"} :
              LET r == analyze_script(returns_csv, mentions_agg_csv, fit)
              IN  /\ df_input' = r.df_input
                  /\ Called("read_data")
                  /\ results_csv' = IF r.status = "ok" THEN File(r.df_input.rows)
                                    ELSE results_csv
                  /\ IF r.status = "raised" THEN Raised ELSE Completed(StepNames[pc])
       ELSE /\ NotSelected
            /\ UNCHANGED <<df_input, results_csv, last_run>>
    /\ UNCHANGED <<mentions_data, dates_data, df_mentions, filings_out, price_files,
                   stock_out, returns_csv, mentions_agg_csv, saving_path, filings_dir,
                   df_filings, collect_vars>>

RunAnalysisStep ==
    /\ Running
    /\ pc = 6
    /\ IF Selected(options, pc)
       THEN \E fit \in {"ok", "raised"} :
              LET r == analyze_script(returns_csv, mentions_agg_csv, fit)
              IN  /\ df_input' = r.df_input
                  /\ Called("read_data")
                  /\ results_csv' = IF r.status = "ok" THEN File(r.df_input.rows)
                                    ELSE results_csv
                  /\ IF r.status = "raised" THEN Raised ELSE Completed(StepNames[pc])
       ELSE /\ NotSelected
            /\ UNCHANGED <<df_input, results_csv, last_run>>
    /\ UNCHANGED <<mentions_data, dates_data, df_mentions, filings_out, price_files,
                   stock_out, returns_csv, mentions_agg_csv, saving_path, filings_dir,
                   df_filings, collect_vars>>

\* "PIPELINE COMPLETE": main returns and the process exits with status 0.
Summary ==
    /\ Running
    /\ pc = Len(StepNames) + 1
    /\ exit_code' = "0"
    /\ UNCHANGED <<mentions_data, dates_data, df_mentions, filings_out, price_files,
                   stock_out, returns_csv, mentions_agg_csv, df_input, saving_path,
                   filings_dir, results_csv, df_filings, options, pc, steps_run,
                   collect_vars, last_run>>

\* The command lines: every combination of the flags, with or without
\* --company and --year.
OptionSets ==
    {o \in [download : BOOLEAN, extract_dates : BOOLEAN, extract_mentions : BOOLEAN,
            process_filings : BOOLEAN, process_stock : BOOLEAN, analyze : BOOLEAN,
            full_pipeline : BOOLEAN, all : BOOLEAN, company : {"", "A"},
            year : {0, FirstYear}] :
        o.year # 0 => o.company # ""}

\* What an earlier run left in SAVING_PATH for ticker A.
StoredPrices == [n \in {TickerFile("A")} |-> CHOOSE h \in PairSeries : h[2].Close = Fx(110)]

StoredDates == extract_all_dates({"A"}, JStr("2021-02-01"))

StoredMentions == extract_all_mentions(NetworkUp, {"A"})

StoredReturns == ReturnsCsv(read_stock_data(AllPresent, StoredPrices).annual_returns)

StoredAgg == AggCsv(process_and_save_data(StoredDates, StoredMentions).df_mentions_agg)

MainNetworks ==
    {NetworkUp, [NetworkUp EXCEPT !.lookup = {"B"}], [NetworkUp EXCEPT !.history = {"B"}],
     [NetworkUp EXCEPT !.api_key = FALSE]}

InitMain ==
    /\ options \in OptionSets
    /\ pc = 1
    /\ steps_run = <<>>
    /\ exit_code = "running"
    /\ saving_path \in {{}, AllPresent}
    /\ mentions_data = IF MentionsFile \in saving_path THEN StoredMentions ELSE EmptyObj
    /\ dates_data = IF DatesFile \in saving_path THEN StoredDates ELSE EmptyObj
    /\ price_files = IF PriceFolder \in saving_path THEN StoredPrices ELSE EmptyObj
    /\ filings_dir \in {{}, {"A"}}
    /\ returns_csv \in {NoFile, File(StoredReturns)}
    /\ mentions_agg_csv \in {NoFile, File(StoredAgg)}
    /\ network \in MainNetworks
    /\ (~Selected(options, 1) /\ ~Selected(options, 3)) => network = NetworkUp
    /\ collect_out = CollectNotRun
    /\ df_mentions = NotRun
    /\ filings_out = FilingsNotRun
    /\ stock_out = StockNotRun
    /\ df_input = InputNotRun
    /\ results_csv = NoFile
    /\ df_filings = NotRun
    /\ last_run = NoStage

NextMain ==
    \/ RunDownloadStep
    \/ RunExtractDatesStep
    \/ RunExtractMentionsStep
    \/ RunProcessFilingsStep
    \/ RunProcessStockStep
    \/ RunAnalysisStep
    \/ Summary

SpecMain == InitMain /\ [][NextMain]_vars

----------------------------------------------------------------------------
(* Properties of a run of main, checked under SpecMain *)

\* Step k was started: it returned, or it is the step that raised.
Attempted(k) == pc > k \/ (pc = k /\ exit_code = "1")

\* C17: an exception raised inside one step does not halt the pipeline; when
\* main has ended, every selected step has been executed.
C17_LaterStepsStillRun ==
    exit_code # "running" =>
        \A k \in 1..Len(StepNames) : Selected(options, k) => Attempted(k)

\* main invoked with the single flag f.
OnlyFlag(f) == options = [NoOptions EXCEPT ![f] = TRUE]

\* C18: main invoked with only --all runs the six steps that main invoked
\* with only --full-pipeline runs.
C18_AllIsFullPipeline ==
    (exit_code # "running" /\ (OnlyFlag("all") \/ OnlyFlag("full_pipeline"))) =>
        /\ \A k \in 1..Len(StepNames) : Selected(options, k)
        /\ Attempted(1)
        /\ exit_code = "0" => steps_run = StepNames

\* C19: step 5 runs the annual-return calculator on the price series and
\* writes annual_stock_return.csv, so the file is there before step 6 reads it.
C19_StockStepWritesReturns ==
    (Selected(options, 5) /\ Attempted(5)) =>
        /\ stock_out = process_stock_data(saving_path, price_files)
        /\ stock_out.status = "ok" =>
              returns_csv = File(ReturnsCsv(stock_out.annual_returns))

\* C21: main invoked with --download, --company C and --year Y: the download
\* step fetches the filings and the price data of C only and completes; its
\* name is recorded and the run does not end in an error at this step.
C21_CompanyYearDownloadCompletes ==
    (Selected(options, 1) /\ options.company # "" /\ options.year # 0 /\ Attempted(1)) =>
        /\ pc > 1
        /\ steps_run # <<>> /\ steps_run[1] = StepNames[1]
        /\ collect_out.filings.processed = {options.company}
        /\ collect_out.prices.processed = {options.company}

----------------------------------------------------------------------------
(* The combined price table, checked under SpecReturns *)

\* The columns of the price files of the model.
SourceColumns == {"Date", "Close"}

\* C22: calculate_annual_returns leaves the price table passed to it as it was
\* (no column added, no row reordered), so the combined price table has
\* exactly the columns of the source files plus ticker, its rows being the
\* date-sorted rows of the files.
C22_PriceTableUnchanged ==
    stock_out.status = "ok" =>
        /\ \A i \in 1..Len(stock_out.combined) :
              DOMAIN stock_out.combined[i] = SourceColumns \cup {"ticker"}
        /\ \A i, j \in 1..Len(stock_out.combined) :
              (i < j /\ stock_out.combined[i].ticker = stock_out.combined[j].ticker)
                  => ~DateLess(stock_out.combined[j].Date, stock_out.combined[i].Date)

----------------------------------------------------------------------------
(* The core stages called again and again on what is in SAVING_PATH *)

RerunCell == <<"A", "2020">>

RerunMentionStores ==
    {StoreOf(c) : c \in [{RerunCell} -> JoinMentionValues]} \cup {EmptyObj}

RerunDateStores ==
    {StoreOf(c) : c \in [{RerunCell} -> FilingValues]} \cup {EmptyObj}

\* df_mentions_agg.csv as an earlier run left it.
RerunAgg ==
    AggCsv(<<[mentioned_company |-> "A", filed_date |-> ParseDate("2021-02-01"),
              year |-> FirstYear, num_mention |-> 1]>>)

InitRerun ==
    /\ saving_path \in SUBSET AllPresent
    /\ mentions_data \in RerunMentionStores
    /\ dates_data \in RerunDateStores
    /\ price_files \in [{FileA} -> PairSeries] \cup {EmptyObj}
    /\ DatesFile \notin saving_path => dates_data = EmptyObj
    /\ MentionsFile \notin saving_path => mentions_data = EmptyObj
    /\ PriceFolder \notin saving_path => price_files = EmptyObj
    /\ returns_csv \in {NoFile, File(StoredReturns)}
    /\ mentions_agg_csv \in {NoFile, File(RerunAgg)}
    /\ df_mentions = NotRun
    /\ filings_out = FilingsNotRun
    /\ stock_out = StockNotRun
    /\ df_input = InputNotRun
    /\ filings_dir = {}
    /\ results_csv = NoFile
    /\ df_filings = NotRun
    /\ last_run = NoStage
    /\ MainNotStarted
    /\ network = NetworkUp
    /\ collect_out = CollectNotRun

NextRerun == ProcessAndSaveData \/ ProcessStockData \/ ReadData

SpecRerun == InitRerun /\ [][NextRerun]_vars

\* This step is a call of the stage directly after a call of the same stage.
CalledAgain(stage) == last_run'.stage = stage /\ last_run'.again

\* C23: a core stage called twice in a row on unchanged persisted inputs
\* returns the same tables and leaves the same files the second time as the
\* first: process_and_save_data, process_stock_data and read_data alike.
C23_RerunGivesSameOutput ==
    [][/\ CalledAgain("process_and_save_data") =>
              (filings_out' = filings_out /\ mentions_agg_csv' = mentions_agg_csv)
       /\ CalledAgain("process_stock_data") =>
              (stock_out' = stock_out /\ returns_csv' = returns_csv)
       /\ CalledAgain("read_data") =>
              df_input' = df_input]_vars

\* process_and_save_data has been called twice in a row and aggregated a
\* mention, the other two stages having returned tables as well.
C23_Witness ==
    /\ last_run = [stage |-> "process_and_save_data", again |-> TRUE]
    /\ filings_out.status = "ok"
    /\ filings_out.df_mentions_agg # <<>>
    /\ stock_out.status = "ok"
    /\ df_input.status = "ok"
    /\ df_input.rows # <<>>

----------------------------------------------------------------------------
(* The order of the steps of main, checked under SpecMain *)

\* What a step of main may change: main is running and is at step pc; either
\* the step returned (its name is appended if it was selected, and main goes
\* to the next step), or it raised (nothing is appended, exit status 1), or
\* all six are behind and "PIPELINE COMPLETE" is reported (exit status 0).
StepInOrder ==
    /\ exit_code = "running"
    /\ options' = options
    /\ \/ /\ pc \in 1..Len(StepNames)
          /\ pc' = pc + 1
          /\ exit_code' = "running"
          /\ steps_run' = IF Selected(options, pc)
                          THEN Append(steps_run, StepNames[pc])
                          ELSE steps_run
       \/ /\ pc \in 1..Len(StepNames)
          /\ Selected(options, pc)
          /\ pc' = pc
          /\ exit_code' = "1"
          /\ steps_run' = steps_run
       \/ /\ pc = Len(StepNames) + 1
          /\ pc' = pc
          /\ exit_code' = "0"
          /\ steps_run' = steps_run

\* What each step writes is written while main is at that step.
WrittenAtItsStep ==
    /\ (price_files' # price_files \/ collect_out'.filings # collect_out.filings
           \/ collect_out'.prices # collect_out.prices) => pc = 1
    /\ dates_data' # dates_data => pc = 2
    /\ (mentions_data' # mentions_data
           \/ collect_out'.mentions # collect_out.mentions) => pc = 3
    /\ (filings_out' # filings_out \/ mentions_agg_csv' # mentions_agg_csv) => pc = 4
    /\ (df_input' # df_input \/ results_csv' # results_csv) => pc \in {5, 6}
    /\ \A k \in 1..Len(StepNames) :
          (pc = k /\ ~Selected(options, k)) =>
              UNCHANGED <<price_files, collect_out, dates_data, mentions_data,
                          filings_out, mentions_agg_csv, df_input, results_csv>>

\* C24: in every run of main the selected steps execute in the order download,
\* extract-dates, extract-mentions, process-filings, process-stock, analyze;
\* a step's name is appended to steps_run only after the step returned; once
\* a step raises no later step starts, "PIPELINE COMPLETE" is not reported and
\* the exit status is 1.
C24_FixedOrderThenAbort == [][StepInOrder /\ WrittenAtItsStep]_vars

\* Process-filings raised after an earlier step had completed, with a later
\* step selected that was never started.
C24_Witness ==
    /\ exit_code = "1"
    /\ pc = 4
    /\ steps_run # <<>>
    /\ Selected(options, 6)
    /\ df_input.status = "none"
    /\ ~options.full_pipeline

----------------------------------------------------------------------------
(* The row count of the regression input, checked under SpecAnalyze *)

\* The rows of df_mentions_agg.csv that mention ticker in year.
MentionRowsOf(ticker, year) ==
    SelectSeq(mentions_agg_csv.rows,
              LAMBDA a : a.mentioned_company = ticker /\ a.year = year)

\* C25: the left join in read_data never duplicates a return row: the
\* regression input has one row per row of the annual-returns table, in its
\* order, also when df_mentions_agg.csv holds several rows for one
\* (mentioned_company, year) with different filed_date values; such rows are
\* summed into the one num_mention of that return row.
C25_OneRowPerReturnRow ==
    df_input.status = "ok" =>
        /\ Len(df_input.rows) = Len(returns_csv.rows)
        /\ \A i \in 1..Len(returns_csv.rows) :
              i <= Len(df_input.rows) =>
                  LET ms == MentionRowsOf(returns_csv.rows[i].ticker,
                                          returns_csv.rows[i].year)
                  IN  /\ df_input.rows[i].ticker = returns_csv.rows[i].ticker
                      /\ df_input.rows[i].year = returns_csv.rows[i].year
                      /\ df_input.rows[i].num_mention
                            = Fx(SumSeq([j \in 1..Len(ms) |-> ms[j].num_mention]))

\* read_data has joined a return row with two mention rows of its ticker and
\* year that differ in filed_date.
C25_Witness ==
    /\ df_input.status = "ok"
    /\ \E i \in 1..Len(returns_csv.rows) :
          LET ms == MentionRowsOf(returns_csv.rows[i].ticker, returns_csv.rows[i].year)
          IN  /\ Len(ms) = 2
              /\ ms[1].filed_date # ms[2].filed_date
    /\ Len(returns_csv.rows) > 1

====
